---- MODULE Spec2Model ----
(***************************************************************************)
(* The Image widget of druid (src/druid/src/widget/images.rs): ImageData   *)
(* construction, Image::new / set_fill / layout / paint, and the fit       *)
(* computation get_scale_offset.                                           *)
(*                                                                         *)
(* f64 values are modelled as exact fractions <<n, d>> extended with the   *)
(* IEEE special values: <<1, 0>> is +inf, <<-1, 0>> is -inf and <<0, 0>>   *)
(* is NaN.  Rounding is not modelled (the sizes drawn below are small      *)
(* integers), the sign of zero is not modelled.                            *)
(***************************************************************************)
EXTENDS Integers, Sequences, FiniteSets

(* Largest side, in pixels, of a decoded image and of a paint size or a
   box-constraint bound drawn by the environment. *)
MaxSide == 2

----------------------------------------------------------------------------
(* f64 arithmetic *)

Abs(n) == IF n < 0 THEN -n ELSE n

Sgn(n) == IF n < 0 THEN -1 ELSE IF n > 0 THEN 1 ELSE 0

RECURSIVE GCD(_, _)
GCD(a, b) == IF b = 0 THEN a ELSE GCD(b, a % b)

(* The canonical form of the fraction n/d. *)
Norm(n, d) ==
    IF d = 0 THEN <<Sgn(n), 0>>
    ELSE LET g == GCD(Abs(n), Abs(d))
         IN  <<(Sgn(d) * n) \div g, Abs(d) \div g>>

F(n) == <<n, 1>>

Inf == <<1, 0>>

NaN == <<0, 0>>

IsNaN(a) == a = NaN

IsFinite(a) == a[2] # 0

FAdd(a, b) ==
    IF a[2] = 0 /\ b[2] = 0
    THEN (IF a = b THEN a ELSE NaN)
    ELSE Norm(a[1] * b[2] + b[1] * a[2], a[2] * b[2])

FNeg(a) == <<-a[1], a[2]>>

FSub(a, b) == FAdd(a, FNeg(b))

FMul(a, b) == Norm(a[1] * b[1], a[2] * b[2])

(* 1/b: 1/0 is +inf, 1/inf is 0, 1/NaN is NaN. *)
FRecip(b) == IF b[1] < 0 THEN <<-b[2], -b[1]>> ELSE <<b[2], b[1]>>

FDiv(a, b) == FMul(a, FRecip(b))

(* a < b; false when either is NaN. *)
FLt(a, b) ==
    /\ ~IsNaN(a)
    /\ ~IsNaN(b)
    /\ IF a[2] = 0 /\ b[2] = 0 THEN a[1] < b[1]
       ELSE a[1] * b[2] < b[1] * a[2]

FLe(a, b) == ~IsNaN(a) /\ ~IsNaN(b) /\ ~FLt(b, a)

(* f64::min and f64::max: a NaN operand is ignored. *)
FMin(a, b) == IF IsNaN(a) THEN b ELSE IF IsNaN(b) THEN a ELSE IF FLt(b, a) THEN b ELSE a

FMax(a, b) == IF IsNaN(a) THEN b ELSE IF IsNaN(b) THEN a ELSE IF FLt(a, b) THEN b ELSE a

----------------------------------------------------------------------------
(* Geometry values *)

Size(w, h) == [width |-> w, height |-> h]

Point(x, y) == [x |-> x, y |-> y]

(* Rect::from_origin_size(origin, size), as its two corners. *)
Rect(x0, y0, w, h) == [x0 |-> x0, y0 |-> y0, x1 |-> FAdd(x0, w), y1 |-> FAdd(y0, h)]

(* Affine::new([a, b, c, d, e, f]) maps (x, y) to (a x + c y + e, b x + d y + f). *)
AffineApply(m, p) ==
    Point(FAdd(FAdd(FMul(m[1], p.x), FMul(m[3], p.y)), m[5]),
          FAdd(FAdd(FMul(m[2], p.x), FMul(m[4], p.y)), m[6]))

----------------------------------------------------------------------------
(* FillStrat *)

FillStrat == {"Contain", "Cover", "Fill", "FitHeight", "FitWidth", "None", "ScaleDown"}

FillStrat_default == "Fill"

(* The arms of get_scale_offset's match, each the scale vector of a policy. *)
scale_contain_max(scalex, scaley) == LET scale == FMax(scalex, scaley) IN Point(scale, scale)

scale_contain(scalex, scaley) == LET scale == FMin(scalex, scaley) IN Point(scale, scale)

scale_cover(scalex, scaley) == LET scale == FMax(scalex, scaley) IN Point(scale, scale)

scale_fill(scalex, scaley) == Point(scalex, scaley)

scale_fit_height(scalex, scaley) == Point(scaley, scaley)

scale_fit_width_stretch(scalex, scaley) == Point(scalex, scaley)

scale_fit_width(scalex, scaley) == Point(scalex, scalex)

scale_scale_down_nocap(scalex, scaley) ==
    LET scale == FMin(scalex, scaley) IN Point(scale, scale)

scale_scale_down(scalex, scaley) ==
    LET scale == FMin(FMin(scalex, scaley), F(1)) IN Point(scale, scale)

scale_none(scalex, scaley) == Point(F(1), F(1))

resolve_scale(scalex, scaley, fit_type) ==
    CASE fit_type = "Contain"   -> scale_contain(scalex, scaley)
      [] fit_type = "Cover"     -> scale_cover(scalex, scaley)
      [] fit_type = "Fill"      -> scale_fill(scalex, scaley)
      [] fit_type = "FitHeight" -> scale_fit_height(scalex, scaley)
      [] fit_type = "FitWidth"  -> scale_fit_width(scalex, scaley)
      [] fit_type = "ScaleDown" -> scale_scale_down(scalex, scaley)
      [] fit_type = "None"      -> scale_none(scalex, scaley)

get_scale_offset_nohalf(parent, fit_box, fit_type) ==
    LET scalex == FDiv(parent.width, fit_box.width)
        scaley == FDiv(parent.height, fit_box.height)
        scale == resolve_scale(scalex, scaley, fit_type)
        origin_x == FSub(parent.width, FMul(fit_box.width, scale.x))
        origin_y == FSub(parent.height, FMul(fit_box.height, scale.y))
    IN  [scale |-> scale, origin |-> Point(origin_x, origin_y)]

get_scale_offset(parent, fit_box, fit_type) ==
    LET scalex == FDiv(parent.width, fit_box.width)
        scaley == FDiv(parent.height, fit_box.height)
        scale == resolve_scale(scalex, scaley, fit_type)
        origin_x == FDiv(FSub(parent.width, FMul(fit_box.width, scale.x)), F(2))
        origin_y == FDiv(FSub(parent.height, FMul(fit_box.height, scale.y)), F(2))
    IN  [scale |-> scale, origin |-> Point(origin_x, origin_y)]

----------------------------------------------------------------------------
(* ImageData *)

ImageData(pixels, x_pixels, y_pixels) ==
    [pixels |-> pixels, x_pixels |-> x_pixels, y_pixels |-> y_pixels]

ImageData_empty == ImageData(<<>>, 0, 0)

Ok(v) == [tag |-> "Ok", val |-> v]

Err == [tag |-> "Err", val |-> ImageData_empty]

(* What the image crate cannot decode: bytes handed to from_data, or the
   file a path handed to from_str names. *)
UndecodableBytes == {"zero_length", "garbage"}

UndecodableFiles == {"missing_file", "corrupt_file"}

Undecodable == UndecodableBytes \cup UndecodableFiles

Encoded == [kind : {"encoded"}, width : 1..MaxSide, height : 1..MaxSide]

(* The raw_image arguments of from_data. *)
RawImages == [kind : UndecodableBytes, width : {0}, height : {0}] \cup Encoded

(* The image_str arguments of from_str, as the files they name. *)
ImagePaths == [kind : UndecodableFiles, width : {0}, height : {0}] \cup Encoded

(* image::load_from_memory / image::open followed by to_rgb(): three bytes a
   pixel. *)
image_load(src) ==
    IF src.kind = "encoded"
    THEN Ok([dimensions |-> <<src.width, src.height>>,
             to_vec |-> [i \in 1..(3 * src.width * src.height) |-> 0]])
    ELSE Err

(* from_data and from_str have one body: unwrap the decoder's result, then
   build the ImageData.  The result is "panic" when unwrap meets an Err. *)
decode_unwrap(src) ==
    LET dec == image_load(src)
    IN  IF dec.tag = "Err"
        THEN [tag |-> "panic", val |-> ImageData_empty]
        ELSE LET sizeofimage == dec.val.dimensions
             IN  Ok(ImageData(dec.val.to_vec, sizeofimage[1], sizeofimage[2]))

from_data(raw_image) == decode_unwrap(raw_image)

from_str(image_str) == decode_unwrap(image_str)

----------------------------------------------------------------------------
(* BoxConstraints, as the layout protocol describes them *)

Sides == {F(n) : n \in 1..MaxSide}

(* min is (0, 0) or (1, 1); max.width is a side or unbounded; max.height is
   one pixel or unbounded. *)
BoxConstraints ==
    {[min |-> Size(F(m), F(m)), max |-> Size(w, h)] :
        m \in {0, 1}, w \in Sides \cup {Inf}, h \in {F(1), Inf}}

is_width_bounded(bc) == IsFinite(bc.max.width)

bc_max(bc) == bc.max

constrain(bc, size) ==
    Size(FMin(FMax(size.width, bc.min.width), bc.max.width),
         FMin(FMax(size.height, bc.min.height), bc.max.height))

----------------------------------------------------------------------------
(* Image *)

Image_new(image_data) == [image_data |-> image_data, fill |-> FillStrat_default]

get_size(self) == Size(F(self.image_data.x_pixels), F(self.image_data.y_pixels))

set_fill_ignored(self, newfil) == self

set_fill(self, newfil) == [self EXCEPT !.fill = newfil]

(* bc.debug_check("Image") only logs. *)
layout_swapped(self, bc) ==
    IF is_width_bounded(bc) THEN constrain(bc, get_size(self)) ELSE bc_max(bc)

layout(self, bc) ==
    IF is_width_bounded(bc) THEN bc_max(bc) ELSE constrain(bc, get_size(self))

(* The calls ImageData::to_piet makes on the paint context.  make_image is
   the platform's: handle_ok is its answer, and unwrap panics on a failure,
   inside with_save's closure. *)
to_piet(self, scale, offset, handle_ok) ==
    LET offset_matrix == <<scale, F(0), F(0), scale, offset.x, offset.y>>
        head == << [op |-> "save"],
                   [op |-> "transform", affine |-> offset_matrix],
                   [op |-> "make_image", width |-> self.x_pixels,
                    height |-> self.y_pixels, buf |-> self.pixels, format |-> "Rgb"] >>
        rec == Rect(F(0), F(0), F(self.x_pixels), F(self.y_pixels))
    IN  IF handle_ok
        THEN head \o << [op |-> "draw_image", rect |-> rec, interp |-> "Bilinear"],
                        [op |-> "restore"] >>
        ELSE head

paint_clip_always(self, size) ==
    << [op |-> "clip", rect |-> Rect(F(0), F(0), size.width, size.height)] >>

(* The clip of paint: none under Contain. *)
paint_clip(self, size) ==
    IF self.fill = "Contain" THEN <<>>
    ELSE << [op |-> "clip", rect |-> Rect(F(0), F(0), size.width, size.height)] >>

(* Image::paint on a context of the given size: bob, and the calls made. *)
paint(self, size, handle_ok) ==
    LET bob == get_scale_offset(size, get_size(self), self.fill)
    IN  [bob |-> bob,
         calls |-> paint_clip(self, size)
                     \o to_piet(self.image_data, bob.scale.x, bob.origin, handle_ok)]

----------------------------------------------------------------------------
(* The program: an ImageData is built, an Image is made of it, and the host
   calls the widget. *)

VARIABLES
    pc,         \* "start", "loaded", "live" or "panicked"
    loaded,     \* what the ImageData constructor returned
    widget,     \* the Image: image_data and fill
    call,       \* the call last made, with its arguments
    ret,        \* layout's return value
    paint_ctx,  \* the paint context of the last call: size, bob, calls
    policy,     \* history: the argument of the last set_fill
    lastPaint,  \* history: the last paint since the last set_fill
    repeated    \* history: the last call is a paint of lastPaint's size again

vars == <<pc, loaded, widget, call, ret, paint_ctx, policy, lastPaint, repeated>>

NoSize == Size(F(0), F(0))

NoBob == [scale |-> Point(NaN, NaN), origin |-> Point(NaN, NaN)]

NoCtx == [size |-> NoSize, bob |-> NoBob, calls |-> <<>>]

NoPaint == [valid |-> FALSE, size |-> NoSize, calls |-> <<>>]

NoBc == [min |-> NoSize, max |-> NoSize]

NoLoaded == [tag |-> "none", val |-> ImageData_empty]

NoSource == [kind |-> "none", width |-> 0, height |-> 0]

Call(op, src, fill, bc) == [op |-> op, src |-> src, fill |-> fill, bc |-> bc]

(* The sizes a paint context has: positive sides, or the zero size. *)
PaintSizes == {Size(w, h) : w \in Sides, h \in Sides} \cup {Size(F(0), F(0))}

Init ==
    /\ pc = "start"
    /\ loaded = NoLoaded
    /\ widget = Image_new(ImageData_empty)
    /\ call = Call("none", NoSource, FillStrat_default, NoBc)
    /\ ret = NoSize
    /\ paint_ctx = NoCtx
    /\ policy = FillStrat_default
    /\ lastPaint = NoPaint
    /\ repeated = FALSE

Empty ==
    /\ pc = "start"
    /\ pc' = "loaded"
    /\ loaded' = Ok(ImageData_empty)
    /\ call' = Call("empty", NoSource, FillStrat_default, NoBc)
    /\ UNCHANGED <<widget, ret, paint_ctx, policy, lastPaint, repeated>>

(* impl Default for ImageData: ImageData::empty(). *)
DefaultData ==
    /\ pc = "start"
    /\ pc' = "loaded"
    /\ loaded' = Ok(ImageData_empty)
    /\ call' = Call("default", NoSource, FillStrat_default, NoBc)
    /\ UNCHANGED <<widget, ret, paint_ctx, policy, lastPaint, repeated>>

(* from_data returns, or panics in unwrap. *)
FromData ==
    \E raw_image \in RawImages :
        LET r == from_data(raw_image)
        IN  /\ pc = "start"
            /\ pc' = IF r.tag = "panic" THEN "panicked" ELSE "loaded"
            /\ loaded' = r
            /\ call' = Call("from_data", raw_image, FillStrat_default, NoBc)
            /\ UNCHANGED <<widget, ret, paint_ctx, policy, lastPaint, repeated>>

(* from_str returns, or panics in unwrap. *)
FromStr ==
    \E image_str \in ImagePaths :
        LET r == from_str(image_str)
        IN  /\ pc = "start"
            /\ pc' = IF r.tag = "panic" THEN "panicked" ELSE "loaded"
            /\ loaded' = r
            /\ call' = Call("from_str", image_str, FillStrat_default, NoBc)
            /\ UNCHANGED <<widget, ret, paint_ctx, policy, lastPaint, repeated>>

New ==
    /\ pc = "loaded"
    /\ loaded.tag = "Ok"
    /\ pc' = "live"
    /\ widget' = Image_new(loaded.val)
    /\ call' = Call("new", NoSource, FillStrat_default, NoBc)
    /\ policy' = FillStrat_default
    /\ UNCHANGED <<loaded, ret, paint_ctx, lastPaint, repeated>>

SetFill ==
    \E newfil \in FillStrat :
        /\ pc = "live"
        /\ widget' = set_fill(widget, newfil)
        /\ call' = Call("set_fill", NoSource, newfil, NoBc)
        /\ policy' = newfil
        /\ lastPaint' = NoPaint
        /\ repeated' = FALSE
        /\ ret' = NoSize
        /\ paint_ctx' = NoCtx
        /\ UNCHANGED <<pc, loaded>>

Layout ==
    \E bc \in BoxConstraints :
        /\ pc = "live"
        /\ call' = Call("layout", NoSource, FillStrat_default, bc)
        /\ ret' = layout(widget, bc)
        /\ paint_ctx' = NoCtx
        /\ repeated' = FALSE
        /\ UNCHANGED <<pc, loaded, widget, policy, lastPaint>>

Paint ==
    \E size \in PaintSizes, handle_ok \in BOOLEAN :
        LET p == paint(widget, size, handle_ok)
        IN  /\ pc = "live"
            /\ pc' = IF handle_ok THEN "live" ELSE "panicked"
            /\ call' = Call("paint", NoSource, FillStrat_default, NoBc)
            /\ paint_ctx' = [size |-> size, bob |-> p.bob, calls |-> p.calls]
            /\ lastPaint' = IF handle_ok
                            THEN [valid |-> TRUE, size |-> size, calls |-> p.calls]
                            ELSE lastPaint
            /\ repeated' = (handle_ok /\ lastPaint.valid /\ lastPaint.size = size)
            /\ ret' = NoSize
            /\ UNCHANGED <<loaded, widget, policy>>

(* event, lifecycle and update have empty bodies. *)
EventStep ==
    /\ pc = "live"
    /\ call' = Call("event", NoSource, FillStrat_default, NoBc)
    /\ ret' = NoSize
    /\ paint_ctx' = NoCtx
    /\ repeated' = FALSE
    /\ UNCHANGED <<pc, loaded, widget, policy, lastPaint>>

LifecycleStep ==
    /\ pc = "live"
    /\ call' = Call("lifecycle", NoSource, FillStrat_default, NoBc)
    /\ ret' = NoSize
    /\ paint_ctx' = NoCtx
    /\ repeated' = FALSE
    /\ UNCHANGED <<pc, loaded, widget, policy, lastPaint>>

UpdateStep ==
    /\ pc = "live"
    /\ call' = Call("update", NoSource, FillStrat_default, NoBc)
    /\ ret' = NoSize
    /\ paint_ctx' = NoCtx
    /\ repeated' = FALSE
    /\ UNCHANGED <<pc, loaded, widget, policy, lastPaint>>

Next ==
    \/ Empty
    \/ DefaultData
    \/ FromData
    \/ FromStr
    \/ New
    \/ SetFill
    \/ Layout
    \/ Paint
    \/ EventStep
    \/ LifecycleStep
    \/ UpdateStep

Spec == Init /\ [][Next]_vars

----------------------------------------------------------------------------
(* What the properties below read off a state *)

Painted == call.op = "paint"

avail == paint_ctx.size

intrinsic == get_size(widget)

IsPositive(size) ==
    /\ IsFinite(size.width) /\ FLt(F(0), size.width)
    /\ IsFinite(size.height) /\ FLt(F(0), size.height)

(* A paint of an image with positive sides on a context with positive sides. *)
PaintedPositive == Painted /\ IsPositive(avail) /\ IsPositive(intrinsic)

scale_x == FDiv(avail.width, intrinsic.width)

scale_y == FDiv(avail.height, intrinsic.height)

AspectsDiffer ==
    FMul(avail.width, intrinsic.height) # FMul(avail.height, intrinsic.width)

(* The places of the calls named op in the paint context's log. *)
Places(op) == {i \in 1..Len(paint_ctx.calls) : paint_ctx.calls[i].op = op}

TheCall(op) == paint_ctx.calls[CHOOSE i \in Places(op) : TRUE]

Drew == Places("draw_image") # {}

(* The rectangle the draw_image call paints, through the transform in force. *)
DrawnOnto ==
    LET m == TheCall("transform").affine
        r == TheCall("draw_image").rect
    IN  [p0 |-> AffineApply(m, Point(r.x0, r.y0)),
         p1 |-> AffineApply(m, Point(r.x1, r.y1))]

IsLeast(s, among) == s \in among /\ \A t \in among : FLe(s, t)

IsGreatest(s, among) == s \in among /\ \A t \in among : FLe(t, s)

----------------------------------------------------------------------------
(* C1: for positive available and intrinsic sizes, the scale get_scale_offset
   returns is the policy table's: Contain the least of scale_x and scale_y on
   both axes, Cover the greatest, Fill (scale_x, scale_y), FitHeight
   (scale_y, scale_y), FitWidth (scale_x, scale_x), ScaleDown the least of
   scale_x, scale_y and 1 (so at most 1), None (1, 1). *)
C1_ScaleTable ==
    PaintedPositive =>
        LET s == paint_ctx.bob.scale
        IN  CASE widget.fill = "Contain" ->
                    s.x = s.y /\ IsLeast(s.x, {scale_x, scale_y})
              [] widget.fill = "Cover" ->
                    s.x = s.y /\ IsGreatest(s.x, {scale_x, scale_y})
              [] widget.fill = "Fill" -> s.x = scale_x /\ s.y = scale_y
              [] widget.fill = "FitHeight" -> s.x = scale_y /\ s.y = scale_y
              [] widget.fill = "FitWidth" -> s.x = scale_x /\ s.y = scale_x
              [] widget.fill = "ScaleDown" ->
                    /\ s.x = s.y
                    /\ IsLeast(s.x, {scale_x, scale_y, F(1)})
                    /\ FLe(s.x, F(1))
              [] widget.fill = "None" -> s.x = F(1) /\ s.y = F(1)

(* ScaleDown was painted where both quotients exceed 1, and the scale is 1. *)
C1_Witness ==
    /\ PaintedPositive
    /\ widget.fill = "ScaleDown"
    /\ FLt(F(1), scale_x)
    /\ FLt(F(1), scale_y)
    /\ paint_ctx.bob.scale = Point(F(1), F(1))

(* C2: for every policy and positive sizes the offset centers the scaled
   content: offset.x + intrinsic.width * scale.x / 2 = available.width / 2,
   and the same on y. *)
C2_Centered ==
    PaintedPositive =>
        LET s == paint_ctx.bob.scale
            o == paint_ctx.bob.origin
        IN  /\ FAdd(o.x, FDiv(FMul(intrinsic.width, s.x), F(2))) = FDiv(avail.width, F(2))
            /\ FAdd(o.y, FDiv(FMul(intrinsic.height, s.y), F(2))) = FDiv(avail.height, F(2))

(* Cover on a box twice as wide as high and a square image: scale (2, 2),
   offset (0, -1/2) (the spec's scenario, in units of 100). *)
C2_Witness ==
    /\ PaintedPositive
    /\ widget.fill = "Cover"
    /\ avail = Size(F(2), F(1))
    /\ intrinsic = Size(F(1), F(1))
    /\ paint_ctx.bob.scale = Point(F(2), F(2))
    /\ paint_ctx.bob.origin = Point(F(0), <<-1, 2>>)

(* C3: the transform of the blit scales x by scale.x and y by scale.y and
   then translates by the offset: the intrinsic rectangle is drawn onto
   (offset.x, offset.y)-(offset.x + w * scale.x, offset.y + h * scale.y). *)
C3_TransformBothAxes ==
    (PaintedPositive /\ Drew) =>
        LET s == paint_ctx.bob.scale
            o == paint_ctx.bob.origin
        IN  /\ DrawnOnto.p0 = o
            /\ DrawnOnto.p1 = Point(FAdd(o.x, FMul(intrinsic.width, s.x)),
                                    FAdd(o.y, FMul(intrinsic.height, s.y)))

(* C4, as claimed: layout returns the constraints' maximum when the width is
   unbounded, and the clamped intrinsic size when it is bounded. *)
C4_AsClaimed ==
    call.op = "layout" =>
        ret = IF ~IsFinite(call.bc.max.width)
              THEN call.bc.max
              ELSE constrain(call.bc, intrinsic)

Clamped(v, lo, hi) ==
    IF FLt(v, lo) THEN lo ELSE IF FLt(hi, v) THEN hi ELSE v

(* C4, amended: layout returns the constraints' maximum when the width is
   bounded, and the intrinsic size clamped into the constraints when the
   width is unbounded. *)
C4_Layout ==
    call.op = "layout" =>
        IF IsFinite(call.bc.max.width)
        THEN ret = call.bc.max
        ELSE /\ ret.width = Clamped(intrinsic.width, call.bc.min.width, call.bc.max.width)
             /\ ret.height = Clamped(intrinsic.height, call.bc.min.height, call.bc.max.height)

(* A layout under an unbounded width where the clamp acts on the height. *)
C4_Witness ==
    /\ call.op = "layout"
    /\ ~IsFinite(call.bc.max.width)
    /\ FLt(call.bc.max.height, intrinsic.height)
    /\ ret = Size(intrinsic.width, call.bc.max.height)

(* The positive inputs of the model on which get_scale_offset can be asked. *)
PositiveSizes == {Size(w, h) : w \in Sides, h \in Sides}

CanBeAnisotropic(fit_type) ==
    \E a \in PositiveSizes, i \in PositiveSizes :
        LET s == get_scale_offset(a, i, fit_type).scale IN s.x # s.y

(* C5, as claimed: Contain and Cover give scale.x = scale.y, and each of
   Fill, FitHeight and FitWidth has an input whose scale.x # scale.y. *)
C5_AsClaimed ==
    PaintedPositive =>
        /\ widget.fill \in {"Contain", "Cover"} => paint_ctx.bob.scale.x = paint_ctx.bob.scale.y
        /\ widget.fill \in {"Fill", "FitHeight", "FitWidth"} => CanBeAnisotropic(widget.fill)

(* C5, amended: Contain and Cover give scale.x = scale.y, and so do
   FitHeight and FitWidth; of the three only Fill gives scale.x # scale.y,
   and it does whenever the aspect ratios differ. *)
C5_Uniform ==
    PaintedPositive =>
        /\ widget.fill \in {"Contain", "Cover", "FitHeight", "FitWidth"}
              => paint_ctx.bob.scale.x = paint_ctx.bob.scale.y
        /\ (widget.fill = "Fill" /\ AspectsDiffer)
              => paint_ctx.bob.scale.x # paint_ctx.bob.scale.y

(* FitWidth was painted where the aspect ratios differ. *)
C5_Witness ==
    /\ PaintedPositive
    /\ widget.fill = "FitWidth"
    /\ AspectsDiffer
    /\ paint_ctx.bob.scale.x = paint_ctx.bob.scale.y

IsEmptyBuffer == widget.image_data.x_pixels = 0 \/ widget.image_data.y_pixels = 0

(* C6: a paint of a widget holding an empty buffer makes no image handle,
   issues no draw_image and does not fail. *)
C6_EmptyNoDraw ==
    (Painted /\ IsEmptyBuffer) =>
        /\ Places("make_image") = {}
        /\ Places("draw_image") = {}
        /\ pc # "panicked"

(* C7: from_data and from_str on input that cannot be decoded return an
   error value: no panic, no buffer. *)
C7_DecodeError ==
    (call.op \in {"from_data", "from_str"} /\ call.src.kind \in Undecodable) =>
        /\ pc # "panicked"
        /\ loaded.tag = "Err"

(* C8: a paint clips to the rectangle (0, 0)-(paint size) if and only if the
   policy is not Contain, and the clip comes before the draw_image call. *)
C8_Clip ==
    Painted =>
        /\ Cardinality(Places("clip")) = (IF widget.fill = "Contain" THEN 0 ELSE 1)
        /\ \A i \in Places("clip") :
              /\ paint_ctx.calls[i].rect
                    = [x0 |-> F(0), y0 |-> F(0), x1 |-> avail.width, y1 |-> avail.height]
              /\ \A j \in Places("draw_image") : i < j

(* A paint under Cover that clipped and then drew. *)
C8_Witness ==
    /\ Painted
    /\ widget.fill = "Cover"
    /\ Places("clip") = {1}
    /\ Drew

(* C9: under Contain, for positive sizes, the rectangle drawn lies inside the
   allotted box: offset >= 0 and offset + intrinsic * scale <= available on
   both axes, for the computed scale and offset and for the draw issued. *)
C9_ContainInside ==
    (PaintedPositive /\ widget.fill = "Contain") =>
        LET s == paint_ctx.bob.scale
            o == paint_ctx.bob.origin
        IN  /\ FLe(F(0), o.x)
            /\ FLe(F(0), o.y)
            /\ FLe(FAdd(o.x, FMul(intrinsic.width, s.x)), avail.width)
            /\ FLe(FAdd(o.y, FMul(intrinsic.height, s.y)), avail.height)
            /\ Drew =>
                  /\ FLe(F(0), DrawnOnto.p0.x)
                  /\ FLe(F(0), DrawnOnto.p0.y)
                  /\ FLe(DrawnOnto.p1.x, avail.width)
                  /\ FLe(DrawnOnto.p1.y, avail.height)

(* A Contain paint that letterboxes: the drawn rectangle is narrower than the
   box and starts right of its left edge. *)
C9_Witness ==
    /\ PaintedPositive
    /\ widget.fill = "Contain"
    /\ Drew
    /\ FLt(F(0), DrawnOnto.p0.x)
    /\ FLt(DrawnOnto.p1.x, avail.width)
    /\ DrawnOnto.p1.y = avail.height

(* C10: paint and layout leave the fill policy and the pixel buffer as they
   were; set_fill changes the fill policy only; a paint computes scale and
   offset from the policy of the last set_fill (Fill if there was none), its
   paint size and the buffer's intrinsic size, and transforms by them; and a
   paint of the size of the last paint, with no set_fill in between, makes
   the same calls. *)
C10_Frame ==
    [][ /\ call'.op \in {"paint", "layout"} => widget' = widget
        /\ call'.op = "set_fill" =>
              /\ widget'.fill = call'.fill
              /\ widget'.image_data = widget.image_data
        /\ call'.op = "paint" =>
              LET g == get_scale_offset(paint_ctx'.size, get_size(widget), policy)
                  t == paint_ctx'.calls[CHOOSE i \in 1..Len(paint_ctx'.calls) :
                                            paint_ctx'.calls[i].op = "transform"]
              IN  /\ paint_ctx'.bob = g
                  /\ t.affine[1] = g.scale.x
                  /\ t.affine[5] = g.origin.x
                  /\ t.affine[6] = g.origin.y
        /\ (call'.op = "paint" /\ repeated') => paint_ctx'.calls = lastPaint.calls
      ]_vars

(* A second paint of the same size under Cover, set by set_fill before the
   first. *)
C10_Witness ==
    /\ Painted
    /\ repeated
    /\ policy = "Cover"
    /\ widget.fill = "Cover"
    /\ paint_ctx.calls = lastPaint.calls
    /\ Drew

====
